---------------------------- MODULE Spec2Model ----------------------------
(***************************************************************************)
(* Model of claude-recall (MoltBrain):                                     *)
(*   - fetchWithRetry, the HTTP client with retry logic of the Clawdbot    *)
(*     plugin (integrations/clawd/index.ts);                               *)
(*   - MoltBookHandlers and the stdio MCP server around it                 *)
(*     (integrations/moltbook: handlers and mcp-server);                   *)
(*   - ClawdHooks, the lifecycle hooks with their observation extractors   *)
(*     (integrations/clawd/hooks);                                         *)
(*   - the context block, the SQLite schema, the memory tools, the         *)
(*     migration runner (scripts/migrate.ts) and FavoritesStore.           *)
(* Each subsystem has its own specification over its own variables; the    *)
(* variables of the other subsystems stay at their initial values.         *)
(***************************************************************************)
EXTENDS Integers, Sequences, FiniteSets, Bags, TLC

VARIABLES
  \* ---- fetchWithRetry (one call) ----
  pc,             \* position of the call: "idle", "fetching", "sleeping", "done"
  attempt,        \* the loop variable `attempt`
  outcomes,       \* what each fetch attempt made so far ended with (history)
  delays,         \* the sleep(delay) calls made so far, in ms (history)
  result,         \* the ApiResponse the call resolved to (NoResult before)
  \* ---- MoltBook MCP server ----
  initialized,    \* MoltBookHandlers.initialized
  active,         \* the 'data' callbacks suspended at `await handleRequest`
  out,            \* the lines written to stdout, in order
  exited,         \* process.exit was called
  called,         \* history: ids of the requests a MoltBook client call was made for
  nextId,         \* id the next request will carry
  handled,        \* history: the requests the latest step gave to handleRequest
  shutdownSeen,   \* history: a shutdown request was processed
  \* ---- ClawdHooks ----
  currentSession, \* ClawdHooks.currentSession (NoSession for null)
  sessionMemories,\* ClawdHooks.sessionMemories: session id -> its entry of the Map
  tasks,          \* hook invocations suspended at an await, by slot
  nextObs,        \* history: number of observations extracted so far
  captured,       \* history: observations saveMemory recorded per session
  lastEnd,        \* history: what the latest onSessionEnd call decided
  responses,      \* history: number of onResponse calls made so far
  msgIn,          \* the message text of this run's onResponse calls
  respIn,         \* the response text of this run's onResponse calls
  \* ---- formatMemoriesAsContext (one call) ----
  candidates,     \* the memories handed to formatMemoriesAsContext
  block,          \* the lines of the string it returned (NotFormatted before)
  \* ---- the SQLite store (schema of migrations 001-003) ----
  sessions,         \* table sessions: the ids of its rows
  seqSessions,      \* sqlite_sequence of sessions (AUTOINCREMENT)
  observations,     \* table observations: rows [id, memory_session_id, doc]
  seqObservations,  \* sqlite_sequence of observations
  favorites,        \* table favorites: the observation_id of its rows
  tags,             \* table tags: the ids of its rows
  observation_tags, \* table observation_tags: pairs <<observation_id, tag_id>>
  observations_fts, \* the FTS5 index: a bag of entries [rowid, columns]
  deletedSessions,  \* history: ids of the sessions rows deleted so far
  everObs,          \* history: [id, memory_session_id] of every row inserted
  fullCascade,      \* history: one session's delete removed rows of observations,
                    \* of favorites and of observation_tags
  \* ---- the memory tools (MemorySkill; the plugin's saveMemory/searchMemories) ----
  memStore,         \* the contents the MoltBrain worker holds
  memSaved,         \* history: the contents a save reported success for
  memSearch,        \* history: the latest search, [query, results]
  \* ---- the migration runner (scripts/migrate.ts) ----
  migrationFiles,   \* the names of the files in the migrations directory
  migrations,       \* what loadMigrations returned (NotLoaded before)
  \* ---- search_memories / recall_context (one call at a time) ----
  toolCall,         \* the latest call: [tool, limit, types, answer]
  toolResult,       \* what it returned: [success, results, count]
  \* ---- FavoritesStore ----
  favMap,           \* this.favorites, the Map: its entries [key, item] in insertion order
  favConstructed,   \* the constructor has run
  favStorage,       \* localStorage[storageKey]: the saved items (NoLocalStorage without one)
  favMaxItems,      \* options.maxItems
  favNow,           \* Date.now()
  favEvicted        \* history: the items the latest add/import evicted

fetchVars == <<pc, attempt, outcomes, delays, result>>
rpcVars   == <<initialized, active, out, exited, called, nextId, handled, shutdownSeen>>
hookVars  == <<currentSession, sessionMemories, tasks, nextObs, captured,
               lastEnd, responses, msgIn, respIn>>
ctxVars   == <<candidates, block>>
\* The variables of the subsystems modelled after the hooks.
dbVars    == <<sessions, seqSessions, observations, seqObservations, favorites,
               tags, observation_tags, observations_fts, deletedSessions, everObs,
               fullCascade>>
memVars   == <<memStore, memSaved, memSearch>>
migVars   == <<migrationFiles, migrations>>
toolVars  == <<toolCall, toolResult>>
favVars   == <<favMap, favConstructed, favStorage, favMaxItems, favNow, favEvicted>>
laterVars == <<ctxVars, dbVars, memVars, migVars, toolVars, favVars>>
notFavVars == <<fetchVars, rpcVars, hookVars, ctxVars, dbVars, memVars, migVars, toolVars>>
notCtxVars == <<fetchVars, rpcVars, hookVars, dbVars, memVars, migVars, toolVars, favVars>>
notDbVars  == <<fetchVars, rpcVars, hookVars, ctxVars, memVars, migVars, toolVars, favVars>>
notMemVars == <<fetchVars, rpcVars, hookVars, ctxVars, dbVars, migVars, toolVars, favVars>>
notMigVars == <<fetchVars, rpcVars, hookVars, ctxVars, dbVars, memVars, toolVars, favVars>>
notToolVars == <<fetchVars, rpcVars, hookVars, ctxVars, dbVars, memVars, migVars, favVars>>
vars      == <<fetchVars, rpcVars, hookVars, laterVars>>

(***************************************************************************)
(*                    fetchWithRetry  (clawd/index.ts)                     *)
(***************************************************************************)

MAX_RETRIES == 3
RETRY_DELAY_MS == 1000

NoResult == [success |-> FALSE, data |-> 0, error |-> "pending"]

\* What one `await fetch(...)` and the reading of its response can end with:
\*   ok          2xx, body parsed by response.json()
\*   badjson     2xx, response.json() throws
\*   http4xx     response.ok false, status 400..499
\*   http5xx     response.ok false, status 500..599 (503 among them)
\*   http5xxRef  response.ok false, and the body text holds "ECONNREFUSED"
\*               (a gateway reporting its own upstream failure)
\*   refused     fetch rejects with "fetch failed" / ECONNREFUSED
\*   timeout     the AbortController fired: fetch rejects with an AbortError
\*   other       fetch rejects with any other exception
\*   nomessage   fetch rejects with an exception whose message is empty
Outcomes == {"ok", "badjson", "http4xx", "http5xx", "http5xxRef",
             "refused", "timeout", "other", "nomessage"}

\* lastError.name === 'AbortError' (line 191)
IsAbortMutant(o) == FALSE
IsAbortError(o) == o = "timeout"

\* lastError.message.includes('ECONNREFUSED') || includes('fetch failed')
\* (lines 197-198); the message of an HTTP error is `HTTP ${status}: ${body}`.
IsConnectionError(o) == o \in {"refused", "http5xxRef"}

\* for (...; attempt <= MAX_RETRIES; ...) (line 155)
LoopContinuesOffByOne(a) == a < MAX_RETRIES
LoopContinuesExtra(a) == a <= MAX_RETRIES + 1
LoopContinues(a) == a <= MAX_RETRIES

\* if (attempt < MAX_RETRIES) (lines 201 and 217)
HasRetryLeft(a) == a < MAX_RETRIES

\* const delay = RETRY_DELAY_MS * attempt (lines 202 and 218)
RetryDelayConstant(a) == RETRY_DELAY_MS
RetryDelay(a) == RETRY_DELAY_MS * a

\* lastError.message (line 188): the outcome's name stands for its text.
Message(o) == IF o = "nomessage" THEN "" ELSE o

\* lastError?.message || 'Unknown error after max retries' (line 227)
MessageAsIs(m) == m
MessageOrUnknown(m) == IF m = "" THEN "Unknown error after max retries" ELSE m

\* The error string of the ApiResponse for a failed attempt.
ErrorOf(o) ==
  CASE IsAbortError(o)      -> "Request timed out"
    [] IsConnectionError(o) -> "MoltBrain service not available"
    [] OTHER                -> MessageOrUnknown(Message(o))

\* fetchWithRetry is called: the loop starts with attempt = 1 (lines 153-155).
FetchCall ==
  /\ pc = "idle"
  /\ pc' = "fetching"
  /\ attempt' = 1
  /\ UNCHANGED <<outcomes, delays, result>>
  /\ UNCHANGED <<rpcVars, hookVars, laterVars>>

\* One pass of the loop body up to its return, its sleep or the loop's end
\* (lines 156-222): the fetch is made and ends with outcome o.
FetchAttempt(o) ==
  /\ pc = "fetching"
  /\ UNCHANGED <<rpcVars, hookVars, laterVars>>
  /\ LoopContinues(attempt)
  /\ outcomes' = Append(outcomes, o)
  /\ IF o = "ok"
       THEN \* line 186
            /\ result' = [success |-> TRUE, data |-> Len(outcomes) + 1, error |-> ""]
            /\ pc' = "done"
            /\ UNCHANGED <<attempt, delays>>
     ELSE IF IsAbortError(o)
       THEN \* lines 191-194; the catch block has no test of the HTTP status
            /\ result' = [success |-> FALSE, data |-> 0, error |-> ErrorOf(o)]
            /\ pc' = "done"
            /\ UNCHANGED <<attempt, delays>>
     ELSE IF HasRetryLeft(attempt)
       THEN \* lines 201-205 and 217-221: sleep, then the next pass
            /\ delays' = Append(delays, RetryDelay(attempt))
            /\ pc' = "sleeping"
            /\ UNCHANGED <<attempt, result>>
     ELSE IF IsConnectionError(o)
       THEN \* lines 208-212
            /\ result' = [success |-> FALSE, data |-> 0, error |-> ErrorOf(o)]
            /\ pc' = "done"
            /\ UNCHANGED <<attempt, delays>>
     ELSE \* the last pass fell through: attempt++, and the loop test decides
            /\ attempt' = attempt + 1
            /\ UNCHANGED delays
            /\ IF LoopContinues(attempt + 1)
                 THEN pc' = "fetching" /\ UNCHANGED result
                 ELSE \* lines 225-228
                      /\ pc' = "done"
                      /\ result' = [success |-> FALSE, data |-> 0, error |-> ErrorOf(o)]

\* The sleep's timer fires: attempt++ (by `continue` or by the end of the body).
FetchWake ==
  /\ pc = "sleeping"
  /\ attempt' = attempt + 1
  /\ IF LoopContinues(attempt + 1)
       THEN pc' = "fetching" /\ UNCHANGED result
       ELSE /\ pc' = "done"
            /\ result' = [success |-> FALSE, data |-> 0,
                          error |-> ErrorOf(outcomes[Len(outcomes)])]
  /\ UNCHANGED <<outcomes, delays>>
  /\ UNCHANGED <<rpcVars, hookVars, laterVars>>

FetchAttemptAny == \E o \in Outcomes : FetchAttempt(o)

InitFetchVars ==
  /\ pc = "idle"
  /\ attempt = 0
  /\ outcomes = <<>>
  /\ delays = <<>>
  /\ result = NoResult

\* The other subsystems' variables, at rest.
InitRpcVars ==
  /\ initialized = FALSE
  /\ active = {}
  /\ out = <<>>
  /\ exited = FALSE
  /\ called = {}
  /\ nextId = 1
  /\ handled = <<>>
  /\ shutdownSeen = FALSE

InitHookVars ==
  /\ currentSession = "none"
  /\ sessionMemories = [s \in {"s1", "s2"} |-> [present |-> FALSE, list |-> <<>>]]
  /\ tasks = <<>>
  /\ nextObs = 0
  /\ captured = [s \in {"s1", "s2"} |-> 0]
  /\ lastEnd = [sid |-> "none", n |-> 0, summary |-> FALSE]
  /\ responses = 0
  /\ msgIn = <<>>
  /\ respIn = <<>>

NotFormatted == <<[kind |-> "pending", type |-> "", content |-> <<>>]>>

InitCtxVars ==
  /\ candidates = <<>>
  /\ block = NotFormatted

\* The store after the three migrations: empty tables, the default tags.
InitDbVars ==
  /\ sessions = {}
  /\ seqSessions = 0
  /\ observations = {}
  /\ seqObservations = 0
  /\ favorites = {}
  /\ tags = {1}
  /\ observation_tags = {}
  /\ observations_fts = EmptyBag
  /\ deletedSessions = {}
  /\ everObs = {}
  /\ fullCascade = FALSE

NoSearch == [query |-> "", results |-> {}]

InitMemVars ==
  /\ memStore = {}
  /\ memSaved = {}
  /\ memSearch = NoSearch

NotLoaded == <<[version |-> -1, filename |-> <<>>]>>

InitMigVars ==
  /\ migrationFiles = {}
  /\ migrations = NotLoaded

\* `types` / `limit` left out of a call.
NoTypes == {"<undefined>"}
NoLimit == -2
NotCalled == [tool |-> "none", limit |-> NoLimit, types |-> NoTypes, answer |-> "none"]
NotReturned == [success |-> FALSE, results |-> <<>>, count |-> -1]

InitToolVars ==
  /\ toolCall = NotCalled
  /\ toolResult = NotReturned

\* `note` left out of an item; the storage of a host without localStorage.
NoNote == "<undefined>"
NoLocalStorage == <<[observationId |-> 0, note |-> NoNote, createdAt |-> 0]>>

InitFavVars ==
  /\ favMap = <<>>
  /\ favConstructed = FALSE
  /\ favStorage = NoLocalStorage
  /\ favMaxItems = 1
  /\ favNow = 0
  /\ favEvicted = <<>>

InitLaterVars ==
  /\ InitCtxVars /\ InitDbVars /\ InitMemVars /\ InitMigVars /\ InitToolVars
  /\ InitFavVars

InitFetch == InitFetchVars /\ InitRpcVars /\ InitHookVars /\ InitLaterVars

NextFetch == FetchCall \/ FetchAttemptAny \/ FetchWake

SpecFetch == InitFetch /\ [][NextFetch]_vars

\* Every fetch settles (a response, or a rejection: the abort timer bounds the
\* wait for the response) and every sleep's timer fires.
SpecFetchFair == SpecFetch /\ WF_vars(NextFetch)

Is503(i) == i <= Len(outcomes) /\ outcomes[i] = "http5xx"

\* C2: when the first two attempts receive HTTP 503 and the third a 2xx
\* response, the call is still running after the second 503, and after the
\* third attempt it is done with success = true and the third response's
\* data, exactly 3 attempts having been made.
C2_RetryThenSuccess ==
  /\ (Len(outcomes) = 2 /\ Is503(1) /\ Is503(2)) => pc \in {"sleeping", "fetching"}
  /\ (Len(outcomes) >= 3 /\ Is503(1) /\ Is503(2) /\ outcomes[3] = "ok")
       => /\ pc = "done"
          /\ Len(outcomes) = 3
          /\ result.success
          /\ result.data = 3

C2_Witness ==
  pc = "done" /\ outcomes = <<"http5xx", "http5xx", "ok">> /\ result.success

\* C3: fetchWithRetry never makes more than MAX_RETRIES fetch attempts, and a
\* call that has started ends, whatever the attempts' outcomes are.
C3_BoundedTermination ==
  /\ [](Len(outcomes) <= MAX_RETRIES)
  /\ ((pc = "fetching") ~> (pc = "done"))

C3_Witness ==
  pc = "done" /\ Len(outcomes) = MAX_RETRIES /\ ~result.success

\* C4 (as claimed): an attempt that receives a 4xx response is the call's last:
\* the call is done, and no backoff wait follows that attempt.
C4_ClientErrorFailsFast ==
  \A i \in 1..Len(outcomes) :
    outcomes[i] = "http4xx" => (Len(outcomes) = i /\ Len(delays) < i /\ pc = "done")

C29_FailureIsAValue ==
  pc = "done" =>
    \/ result.success /\ result.data \in 1..MAX_RETRIES
    \/ ~result.success /\ result.error \notin {"", NoResult.error}

\* A call failed after its last attempt threw an exception with no message.
C29_Witness ==
  /\ pc = "done"
  /\ ~result.success
  /\ Len(outcomes) = MAX_RETRIES
  /\ outcomes[MAX_RETRIES] = "nomessage"

\* The outcomes after which the loop goes on to another attempt.
IsRetried(o) == o \notin {"ok", "timeout"}

\* C20: the k-th wait of a call lasts RETRY_DELAY_MS * k (1000 ms, then
\* 2000 ms); every failed attempt k < MAX_RETRIES that is retried, connection
\* refused or not, is followed by that wait, and no wait follows attempt
\* MAX_RETRIES.
C20_LinearDelay ==
  /\ \A k \in 1..Len(delays) : delays[k] = RETRY_DELAY_MS * k
  /\ \A k \in 1..Len(outcomes) :
       IF k < MAX_RETRIES /\ IsRetried(outcomes[k])
         THEN Len(delays) >= k
         ELSE Len(delays) < k
  /\ pc = "sleeping" => Len(delays) = Len(outcomes)

\* Three failed attempts, one refused and two of another kind: two waits.
C20_Witness ==
  /\ pc = "done"
  /\ outcomes = <<"refused", "other", "other">>
  /\ delays = <<1000, 2000>>

(***************************************************************************)
(*        MoltBookHandlers and the stdio MCP server (moltbook)             *)
(***************************************************************************)

\* Total number of input lines the model delivers to the server.
MaxRequests == 3

PARSE_ERROR == -32700
METHOD_NOT_FOUND == -32601
INVALID_PARAMS == -32602
INTERNAL_ERROR == -32603
NOT_INITIALIZED == -32002
\* `code` of a response that carries a result and no error.
RESULT == 0
\* `id` of a response written with id: null.
NullId == 0

DomainMethods ==
  {"moltbook/create_post", "moltbook/get_posts", "moltbook/get_post",
   "moltbook/add_comment", "moltbook/list_submolts", "moltbook/get_submolt",
   "moltbook/search", "moltbook/register_agent", "moltbook/get_agent"}

\* A method no case of the switch names.
UnknownMethod == "tools/list"
\* A line JSON.parse rejects.
Garbage == "<not json>"

Methods == DomainMethods \cup {"initialize", "shutdown", UnknownMethod}

\* The parameters each domain handler tests before it calls the client
\* (`!params?.x`: missing, empty and otherwise falsy alike).
CheckedParams(m) ==
  CASE m = "moltbook/create_post"    -> {"title", "content", "submolt"}
    [] m = "moltbook/get_post"       -> {"postId"}
    [] m = "moltbook/add_comment"    -> {"postId", "content"}
    [] m = "moltbook/get_submolt"    -> {"submoltName"}
    [] m = "moltbook/search"         -> {"query"}
    [] m = "moltbook/register_agent" -> {"name", "description"}
    [] m = "moltbook/get_agent"      -> {"agentId"}
    [] OTHER                         -> {}

\* The parameters the method's parameter type declares without `?`
\* (CreatePostParams .. RegisterAgentParams, and the inline types of the
\* handlers' signatures).
RequiredParams(m) ==
  CASE m = "moltbook/create_post"    -> {"title", "content", "submolt"}
    [] m = "moltbook/get_post"       -> {"postId"}
    [] m = "moltbook/add_comment"    -> {"postId", "content"}
    [] m = "moltbook/get_submolt"    -> {"submoltName"}
    [] m = "moltbook/search"         -> {"query"}
    [] m = "moltbook/register_agent" -> {"name", "description", "capabilities"}
    [] m = "moltbook/get_agent"      -> {"agentId"}
    [] OTHER                         -> {}

\* The parameter sets a request of method m is sent with: none, all the
\* required parameters present and non-empty, or all but one of them.
ParamChoices(m) ==
  {{}, RequiredParams(m)} \cup {RequiredParams(m) \ {f} : f \in RequiredParams(m)}

\* What a line of input can be: a request (method, truthy parameters) or garbage.
LineKinds ==
  UNION {{[method |-> m, params |-> ps] : ps \in ParamChoices(m)} : m \in Methods} \cup
  {[method |-> Garbage, params |-> {}]}

\* errorResponse / a result response, as written to stdout: {id, code}.
Response(id, code) == [id |-> id, code |-> code]

\* `method !== 'initialize' && !this.initialized` (handleRequest, line 237)
NotInitializedGuardKnownOnly(method, init) == method \in DomainMethods /\ ~init
NotInitializedGuard(method, init) == method # "initialize" /\ ~init

\* handleInitialize (line 274)
InitializeSets == TRUE
\* handleShutdown (line 373)
ShutdownSets == FALSE

\* handleRequest up to its return or to the await inside a domain handler.
\* init: this.initialized at entry. awaits: a client call was made and the
\* returned promise is pending.
handleRequest(init, req) ==
  IF NotInitializedGuard(req.method, init)
    THEN [init |-> init, awaits |-> FALSE, code |-> NOT_INITIALIZED, shut |-> FALSE]
  ELSE IF req.method = "initialize"
    THEN [init |-> InitializeSets, awaits |-> FALSE, code |-> RESULT, shut |-> FALSE]
  ELSE IF req.method \in DomainMethods
    THEN IF ~(CheckedParams(req.method) \subseteq req.params)
           THEN [init |-> init, awaits |-> FALSE, code |-> INVALID_PARAMS, shut |-> FALSE]
           ELSE [init |-> init, awaits |-> TRUE, code |-> RESULT, shut |-> FALSE]
  ELSE IF req.method = "shutdown"
    THEN [init |-> ShutdownSets, awaits |-> FALSE, code |-> RESULT, shut |-> TRUE]
  ELSE [init |-> init, awaits |-> FALSE, code |-> METHOD_NOT_FOUND, shut |-> FALSE]

\* What the completion of the client call of an accepted request writes.
\* `return this.handleX(...)` returns the pending promise out of the try block
\* of handleRequest without awaiting it: a rejection is not caught at line 267
\* and reaches the catch of the 'data' callback (lines 426-435).
ClientResponse(id, ok) ==
  IF ok THEN Response(id, RESULT) ELSE Response(NullId, PARSE_ERROR)

\* The history record of one request given to handleRequest; missing: one
\* of the method's required parameters was absent or empty.
Handled(req, init, h) ==
  [id |-> req.id, method |-> req.method, init |-> init,
   code |-> IF h.awaits THEN RESULT ELSE h.code, called |-> h.awaits,
   missing |-> ~(RequiredParams(req.method) \subseteq req.params)]

\* The for loop of the 'data' callback over `lines` (lines 418-437), run until
\* it ends or suspends at `await handlers.handleRequest(request)` on a pending
\* client call. st: [init, out, handled, called, shut]; the result adds
\* susp: the suspended callbacks (none or one).
RECURSIVE RunLines(_, _)
RunLines(st, lines) ==
  IF lines = <<>> THEN [st |-> st, susp |-> {}]
  ELSE LET l == Head(lines) IN
    IF l.method = Garbage
      THEN RunLines([st EXCEPT !.out = Append(@, Response(NullId, PARSE_ERROR))],
                    Tail(lines))
      ELSE LET h == handleRequest(st.init, l)
               st1 == [st EXCEPT !.init = h.init,
                                 !.handled = Append(@, Handled(l, st.init, h)),
                                 !.shut = @ \/ h.shut]
           IN IF h.awaits
                THEN [st |-> [st1 EXCEPT !.called = @ \cup {l.id}],
                      susp |-> {[id |-> l.id, rest |-> Tail(lines)]}]
                ELSE RunLines([st1 EXCEPT !.out = Append(@, Response(l.id, h.code))],
                              Tail(lines))

StateNow ==
  [init |-> initialized, out |-> out, handled |-> <<>>, called |-> called,
   shut |-> shutdownSeen]

Install(r, others) ==
  /\ initialized' = r.st.init
  /\ out' = r.st.out
  /\ handled' = r.st.handled
  /\ called' = r.st.called
  /\ shutdownSeen' = r.st.shut
  /\ active' = others \cup r.susp

\* process.stdin.on('data'): a chunk of n complete lines arrives.
DataChunk ==
  /\ ~exited
  /\ \E n \in 1..(MaxRequests + 1 - nextId) :
       \E ls \in [1..n -> LineKinds] :
         LET lines == [i \in 1..n |->
                         [id |-> nextId + i - 1, method |-> ls[i].method,
                          params |-> ls[i].params]]
         IN /\ Install(RunLines(StateNow, lines), active)
            /\ nextId' = nextId + n
  /\ UNCHANGED exited
  /\ UNCHANGED <<fetchVars, hookVars, laterVars>>

\* The MoltBook client call of a suspended callback settles (ok: it resolves;
\* otherwise MoltBookClient.request throws): the response is written and the
\* callback's loop goes on with its remaining lines.
ClientSettles(a, ok) ==
  Install(RunLines([StateNow EXCEPT !.out = Append(@, ClientResponse(a.id, ok))],
                   a.rest),
          active \ {a})

ClientReturn ==
  /\ ~exited
  /\ \E a \in active : \E ok \in BOOLEAN : ClientSettles(a, ok)
  /\ UNCHANGED <<exited, nextId>>
  /\ UNCHANGED <<fetchVars, hookVars, laterVars>>

\* process.stdin.on('end'): process.exit(0), whatever is still pending.
StdinEnd ==
  /\ ~exited
  /\ exited' = TRUE
  /\ active' = {}
  /\ handled' = <<>>
  /\ UNCHANGED <<initialized, out, called, nextId, shutdownSeen>>
  /\ UNCHANGED <<fetchVars, hookVars, laterVars>>

InitRpc == InitFetchVars /\ InitRpcVars /\ InitHookVars /\ InitLaterVars

NextRpc == DataChunk \/ ClientReturn \/ StdinEnd

SpecRpc == InitRpc /\ [][NextRpc]_vars

\* C1: a request whose method is not `initialize`, given to handleRequest while
\* the handler is not initialized, is answered with -32002 and no MoltBook
\* client call is made for it (no domain handler runs).
C1_NotInitializedRejected ==
  \A i \in 1..Len(handled) :
    (~handled[i].init /\ handled[i].method # "initialize")
      => /\ handled[i].code = NOT_INITIALIZED
         /\ ~handled[i].called
         /\ handled[i].id \notin called
         /\ \E k \in 1..Len(out) : out[k] = Response(handled[i].id, NOT_INITIALIZED)

\* A domain request rejected after a shutdown.
C1_Witness ==
  /\ shutdownSeen
  /\ ~initialized
  /\ \E i \in 1..Len(handled) :
       /\ handled[i].method \in DomainMethods
       /\ ~handled[i].init
       /\ handled[i].code = NOT_INITIALIZED

\* C21: a domain request that lacks a required parameter of its method, given
\* to an initialized handler, is answered with -32602 carrying its id, and no
\* MoltBook client call is made for it.
C21_RequiredParamsValidated ==
  \A i \in 1..Len(handled) :
    (handled[i].init /\ handled[i].method \in DomainMethods /\ handled[i].missing)
      => /\ handled[i].code = INVALID_PARAMS
         /\ ~handled[i].called
         /\ handled[i].id \notin called
         /\ \E k \in 1..Len(out) : out[k] = Response(handled[i].id, INVALID_PARAMS)

\* C27: when the MoltBook client call made for a request fails, the response
\* written for it is the internal error -32603 with the request's id (never
\* a parse error, never id null).
C27_ClientFailureInternalError ==
  [][\A a \in active :
       (~exited /\ ClientSettles(a, FALSE) /\ UNCHANGED <<exited, nextId>>)
         => out'[Len(out) + 1] = Response(a.id, INTERNAL_ERROR)]_vars

\* C6 (as claimed): once a shutdown request has been processed the handler
\* stays uninitialized, so no domain method is executed any more.
C6_ShutdownTerminal == shutdownSeen => ~initialized

\* C7 (as claimed): when the server has closed, every request a MoltBook
\* client call was made for has a response carrying its id on stdout.
C7_InFlightDrained ==
  exited => \A id \in called : \E k \in 1..Len(out) : out[k].id = id

(***************************************************************************)
(*      ClawdHooks.extractObservations: texts and the two extractors       *)
(***************************************************************************)

\* A text is a sequence of tokens [t, n, up]: t is the token's kind, n its
\* length in characters, up tells a trigger written in another letter case
\* than the pattern's source (as in "I PREFER").
\*   "sp"  one space or tab: matched by \s and by `.`
\*   "nl"  one line terminator: matched by \s, not by `.`
\*   "w"   n characters that are neither whitespace nor part of a trigger
\*   a trigger phrase, matched by the literal start of one pattern
PreferenceTriggers == <<"i prefer", "i like", "i always", "i never">>
DecisionTriggers == <<"i'll", "let's", "we should">>

TriggerLen(t) ==
  CASE t = "i prefer" -> 8 [] t = "i like" -> 6 [] t = "i always" -> 8
    [] t = "i never" -> 7 [] t = "i'll" -> 4 [] t = "let's" -> 5
    [] t = "we should" -> 9

Range(f) == {f[i] : i \in DOMAIN f}

Sp == [t |-> "sp", n |-> 1, up |-> FALSE]
Nl == [t |-> "nl", n |-> 1, up |-> FALSE]
W(n) == [t |-> "w", n |-> n, up |-> FALSE]
Trig(t, up) == [t |-> t, n |-> TriggerLen(t), up |-> up]

IsSpace(tok) == tok.t \in {"sp", "nl"}
\* `.` without the s flag: any character but a line terminator.
DotMatches(tok) == tok.t # "nl"

\* The literal part of a pattern under the i flag: the trigger in any case.
LiteralMatchesAnyWord(tok, trig) == tok.t \in {trig, "w"}
LiteralMatchesCaseSensitive(tok, trig) == tok.t = trig /\ ~tok.up
LiteralMatches(tok, trig) == tok.t = trig

\* String.length of a piece of text.
RECURSIVE CharLen(_)
CharLen(txt) == IF txt = <<>> THEN 0 ELSE Head(txt).n + CharLen(Tail(txt))

\* Last index of the run of tokens satisfying `.`/\s that starts at i
\* (i - 1 when token i is not in the run).
RECURSIVE SpaceRunEnd(_, _)
SpaceRunEnd(txt, i) ==
  IF i <= Len(txt) /\ IsSpace(txt[i]) THEN SpaceRunEnd(txt, i + 1) ELSE i - 1

RECURSIVE DotRunEnd(_, _)
DotRunEnd(txt, i) ==
  IF i <= Len(txt) /\ DotMatches(txt[i]) THEN DotRunEnd(txt, i + 1) ELSE i - 1

\* /<trig>\s+(.+)/ tried at token i: <<>> when it fails there, else
\* <<[from, cap, to]>>: match[0] is txt[from..to], match[1] is txt[cap..to].
\* \s+ is greedy and gives characters back, one at a time, until (.+) finds a
\* character to start at.
MatchAt(txt, i, trig) ==
  IF ~LiteralMatches(txt[i], trig) THEN <<>>
  ELSE LET k == SpaceRunEnd(txt, i + 1)
           \* starts (.+) can take after \s+ has kept at least one character
           starts == {c \in (i + 2)..(k + 1) : c <= Len(txt) /\ DotMatches(txt[c])}
       IN IF k = i \/ starts = {} THEN <<>>
          ELSE LET c == CHOOSE x \in starts : \A y \in starts : y <= x
               IN <<[from |-> i, cap |-> c, to |-> DotRunEnd(txt, c)]>>

\* String.prototype.matchAll with a g pattern: the matches from token `pos`
\* on, leftmost first, each search resuming where the last match ended.
RECURSIVE MatchAll(_, _, _)
MatchAll(txt, trig, pos) ==
  IF pos > Len(txt) THEN <<>>
  ELSE LET m == MatchAt(txt, pos, trig)
       IN IF m = <<>> THEN MatchAll(txt, trig, pos + 1)
          ELSE m \o MatchAll(txt, trig, m[1].to + 1)

\* The decision window of line 147.
MinDecisionLen == 20
MaxDecisionLen == 200
DecisionLengthOk(len) == len > MinDecisionLen /\ len < MaxDecisionLen

Entry(type, txt, m) ==
  [type |-> type, content |-> SubSeq(txt, m.from, m.to)]

\* One pattern's loop over its matches (lines 126-134 and 146-156).
RECURSIVE PreferencesOf(_, _)
PreferencesOf(txt, ms) ==
  IF ms = <<>> THEN <<>>
  ELSE <<Entry("preference", txt, Head(ms))>> \o PreferencesOf(txt, Tail(ms))

RECURSIVE DecisionsOf(_, _)
DecisionsOf(txt, ms) ==
  IF ms = <<>> THEN <<>>
  ELSE (IF DecisionLengthOk(CharLen(SubSeq(txt, Head(ms).cap, Head(ms).to)))
          THEN <<Entry("decision", txt, Head(ms))>> ELSE <<>>)
       \o DecisionsOf(txt, Tail(ms))

\* The loops over the patterns, in the order of the arrays.
RECURSIVE ExtractPreferences(_, _)
ExtractPreferences(txt, k) ==
  IF k > Len(PreferenceTriggers) THEN <<>>
  ELSE PreferencesOf(txt, MatchAll(txt, PreferenceTriggers[k], 1))
       \o ExtractPreferences(txt, k + 1)

RECURSIVE ExtractDecisions(_, _)
ExtractDecisions(txt, k) ==
  IF k > Len(DecisionTriggers) THEN <<>>
  ELSE DecisionsOf(txt, MatchAll(txt, DecisionTriggers[k], 1))
       \o ExtractDecisions(txt, k + 1)

\* extractObservations(message, response): preferences from the message, then
\* decisions from the response.
extractObservations(msg, resp) ==
  ExtractPreferences(msg, 1) \o ExtractDecisions(resp, 1)

(***************************************************************************)
(*                     ClawdHooks: the lifecycle hooks                     *)
(***************************************************************************)

\* Hook invocations that can be suspended at an await at the same time.
MaxTasks == 2
\* onResponse calls made in one run.
MaxResponses == 3

Sessions == {"s1", "s2"}
NoSession == "none"

\* `memories.length > 5` (onSessionEnd, line 80)
SummaryThreshold == 5
SummaryNeededAtThreshold(len) == len >= SummaryThreshold
SummaryNeeded(len) == len > SummaryThreshold

\* An entry of the Map sessionMemories; Absent: the key is not in the Map.
Absent == [present |-> FALSE, list |-> <<>>]
Present(list) == [present |-> TRUE, list |-> list]
NoEnd == [sid |-> NoSession, n |-> 0, summary |-> FALSE]

\* `this.sessionMemories.get(id) || []`
MemoriesOf(id) == IF sessionMemories[id].present THEN sessionMemories[id].list ELSE <<>>

IdleSlots == {k \in 1..MaxTasks : k > Len(tasks)}
CanStart == Len(tasks) < MaxTasks
\* The suspended invocations without the one in slot k.
Without(k) == SubSeq(tasks, 1, k - 1) \o SubSeq(tasks, k + 1, Len(tasks))
\* A suspended invocation: the hook (op), the session it was called with (for
\* onResponse: the session that was current at the call) and the
\* observations onResponse has still to save.  History: again tells an
\* onSessionStart that was called for a session already started, ended that
\* an onSessionEnd for the session s has returned since the call.
Task(op, s, rest) ==
  [op |-> op, s |-> s, rest |-> rest, again |-> FALSE, ended |-> FALSE]

\* The session s is started: its working set exists and no onSessionStart(s)
\* is still awaiting its load.
AlreadyStarted(s) ==
  /\ sessionMemories[s].present
  /\ \A k \in 1..Len(tasks) : ~(tasks[k].op = "start" /\ tasks[k].s = s)

\* onSessionEnd(s) has returned: the suspended onResponse invocations that
\* were called during s are marked (history).
MarkEnded(ts, s) ==
  [k \in 1..Len(ts) |->
     IF ts[k].s = s /\ ts[k].op = "response"
       THEN [ts[k] EXCEPT !.ended = TRUE] ELSE ts[k]]

\* saveMemory(entry) (lines 162-170): the entry is appended to the current
\* session's list; without a current session nothing is recorded.
\* cur, mems, capt: currentSession, sessionMemories and captured at the call.
saveMemoryOverwriting(cur, mems, capt, entry) ==
  IF cur = NoSession THEN [mems |-> mems, capt |-> capt]
  ELSE [mems |-> [mems EXCEPT ![cur] = Present(<<entry>>)],
        capt |-> [capt EXCEPT ![cur] = @ + 1]]
saveMemory(cur, mems, capt, entry) ==
  IF cur = NoSession THEN [mems |-> mems, capt |-> capt]
  ELSE [mems |-> [mems EXCEPT ![cur] = Present(Append(mems[cur].list, entry))],
        capt |-> [capt EXCEPT ![cur] = @ + 1]]

\* onSessionStart(session) up to `await this.loadSessionMemories(session)`.
\* again is history: the mark the suspended invocation carries.
OnSessionStartNoting(s, again) ==
  /\ CanStart
  /\ currentSession' = s
  /\ tasks' = Append(tasks, [Task("start", s, <<>>) EXCEPT !.again = again])
  /\ UNCHANGED <<sessionMemories, nextObs, captured, lastEnd, responses, msgIn, respIn>>
  /\ UNCHANGED <<fetchVars, rpcVars, laterVars>>

\* ... and after it: the loaded list (always empty) becomes the working set.
OnSessionStartResume(k) ==
  /\ k \in 1..Len(tasks)
  /\ tasks[k].op = "start"
  /\ sessionMemories' = [sessionMemories EXCEPT ![tasks[k].s] = Present(<<>>)]
  /\ captured' = [captured EXCEPT ![tasks[k].s] = 0]
  /\ tasks' = Without(k)
  /\ UNCHANGED <<currentSession, nextObs, lastEnd, responses, msgIn, respIn>>
  /\ UNCHANGED <<fetchVars, rpcVars, laterVars>>

\* onResponse(message, response) up to its first await: the observations are
\* extracted and saveMemory is called for the first one.  origin is history:
\* the label the suspended invocation carries in its s field.
OnResponseFrom(origin) ==
  /\ CanStart
  /\ responses < MaxResponses
  /\ responses' = responses + 1
  /\ LET obs == extractObservations(msgIn, respIn)
     IN /\ nextObs' = nextObs + Len(obs)
        /\ IF obs = <<>>
             THEN UNCHANGED <<sessionMemories, captured, tasks>>
             ELSE LET r == saveMemory(currentSession, sessionMemories, captured, obs[1])
                  IN /\ sessionMemories' = r.mems
                     /\ captured' = r.capt
                     /\ tasks' = Append(tasks, Task("response", origin, Tail(obs)))
  /\ UNCHANGED <<currentSession, lastEnd, msgIn, respIn>>
  /\ UNCHANGED <<fetchVars, rpcVars, laterVars>>

\* ... after `await this.saveMemory(obs)`: the next observation's saveMemory,
\* or the end of the loop.
OnResponseResume(k) ==
  /\ k \in 1..Len(tasks)
  /\ tasks[k].op = "response"
  /\ IF tasks[k].rest = <<>>
       THEN /\ tasks' = Without(k)
            /\ UNCHANGED <<sessionMemories, captured>>
       ELSE LET r == saveMemory(currentSession, sessionMemories, captured,
                                Head(tasks[k].rest))
            IN /\ sessionMemories' = r.mems
               /\ captured' = r.capt
               /\ tasks' = [tasks EXCEPT ![k].rest = Tail(@)]
  /\ UNCHANGED <<currentSession, nextObs, lastEnd, responses, msgIn, respIn>>
  /\ UNCHANGED <<fetchVars, rpcVars, laterVars>>

\* onSessionEnd(session): with more than 5 memories generateSessionSummary is
\* called and awaited; otherwise the session is cleaned up at once.
OnSessionEnd(s) ==
  /\ CanStart
  /\ lastEnd' = [sid |-> s, n |-> captured[s],
                 summary |-> SummaryNeeded(Len(MemoriesOf(s)))]
  /\ IF SummaryNeeded(Len(MemoriesOf(s)))
       THEN /\ tasks' = Append(tasks, Task("end", s, <<>>))
            /\ UNCHANGED <<currentSession, sessionMemories, captured>>
       ELSE /\ sessionMemories' = [sessionMemories EXCEPT ![s] = Absent]
            /\ captured' = [captured EXCEPT ![s] = 0]
            /\ currentSession' = NoSession
            /\ tasks' = MarkEnded(tasks, s)
  /\ UNCHANGED <<nextObs, responses, msgIn, respIn>>
  /\ UNCHANGED <<fetchVars, rpcVars, laterVars>>

\* ... after `await this.generateSessionSummary(...)`: lines 84-86.
OnSessionEndResume(k) ==
  /\ k \in 1..Len(tasks)
  /\ tasks[k].op = "end"
  /\ sessionMemories' = [sessionMemories EXCEPT ![tasks[k].s] = Absent]
  /\ captured' = [captured EXCEPT ![tasks[k].s] = 0]
  /\ currentSession' = NoSession
  /\ tasks' = MarkEnded(Without(k), tasks[k].s)
  /\ UNCHANGED <<nextObs, lastEnd, responses, msgIn, respIn>>
  /\ UNCHANGED <<fetchVars, rpcVars, laterVars>>

OnSessionStart(s) == OnSessionStartNoting(s, FALSE)
OnResponse == OnResponseFrom(NoSession)

\* The texts of a run of the hooks: a message with one preference statement
\* or none, a response with a decision inside the window or none.
HookMessages == {<<W(4)>>, <<Trig("i prefer", TRUE), Sp, W(4)>>}
HookResponses == {<<W(2)>>, <<Trig("i'll", TRUE), Sp, W(MinDecisionLen), W(1)>>}

HookState0 ==
  /\ currentSession = NoSession
  /\ sessionMemories = [s \in Sessions |-> Absent]
  /\ tasks = <<>>
  /\ nextObs = 0
  /\ captured = [s \in Sessions |-> 0]
  /\ lastEnd = NoEnd
  /\ responses = 0

InitHooks ==
  /\ InitFetchVars /\ InitRpcVars /\ InitLaterVars /\ HookState0
  /\ msgIn \in HookMessages
  /\ respIn \in HookResponses

StartAny == \E s \in Sessions : OnSessionStart(s)
StartResumeAny == \E k \in 1..MaxTasks : OnSessionStartResume(k)
ResponseResumeAny == \E k \in 1..MaxTasks : OnResponseResume(k)
EndAny == \E s \in Sessions : OnSessionEnd(s)
EndResumeAny == \E k \in 1..MaxTasks : OnSessionEndResume(k)

NextHooks ==
  StartAny \/ StartResumeAny \/ OnResponse \/ ResponseResumeAny \/ EndAny \/ EndResumeAny

SpecHooks == InitHooks /\ [][NextHooks]_vars

AppendedToOpenSession(e) ==
  \E s \in Sessions :
    sessionMemories'[s] = Present(Append(sessionMemories[s].list, e))

\* C28: while at least one started session has not been ended, every
\* observation onResponse saves, at its call or after an await, is appended
\* to the working set of a started, not yet ended session.
C28_NoObservationDropped ==
  [][(\E s \in Sessions : AlreadyStarted(s)) =>
       /\ (OnResponse /\ extractObservations(msgIn, respIn) # <<>>)
            => AppendedToOpenSession(extractObservations(msgIn, respIn)[1])
       /\ \A k \in 1..MaxTasks :
            (OnResponseResume(k) /\ tasks[k].rest # <<>>)
              => AppendedToOpenSession(Head(tasks[k].rest))]_vars


(***************************************************************************)
(*   One onResponse call in a started session, over bounded input texts    *)
(***************************************************************************)

\* Longest text, in tokens, of the inputs below.
MaxToks == 4

TextsOver(alphabet) == UNION {[1..n -> alphabet] : n \in 0..MaxToks}

\* Messages around one preference trigger t (every trigger, either case):
\* t itself, another preference trigger, spaces, line breaks and words.
OtherPreference(t) == IF t = "i like" THEN "i never" ELSE "i like"
MessageInputs ==
  UNION {TextsOver({Trig(t, up), Trig(OtherPreference(t), FALSE), Sp, Nl, W(1)}) :
           t \in Range(PreferenceTriggers), up \in BOOLEAN}

\* Responses around one decision trigger d (every trigger, either case), with
\* words whose lengths put the captured span on and around both bounds.
ResponseInputs ==
  UNION {TextsOver({Trig(d, up), Sp, Nl, W(1), W(MinDecisionLen),
                    W(MaxDecisionLen - 1)}) :
           d \in Range(DecisionTriggers), up \in BOOLEAN}

InitPreference ==
  /\ InitFetchVars /\ InitRpcVars /\ InitLaterVars /\ HookState0
  /\ msgIn \in MessageInputs
  /\ respIn \in HookResponses

InitDecision ==
  /\ InitFetchVars /\ InitRpcVars /\ InitLaterVars /\ HookState0
  /\ msgIn \in HookMessages
  /\ respIn \in ResponseInputs

\* onSessionStart("s1") and, once it has returned, one onResponse call.
FirstStart ==
  /\ currentSession = NoSession /\ tasks = <<>> /\ responses = 0
  /\ OnSessionStart("s1")
OneResponse ==
  /\ currentSession = "s1" /\ tasks = <<>> /\ responses = 0
  /\ OnResponse

NextExtract == FirstStart \/ StartResumeAny \/ OneResponse \/ ResponseResumeAny

SpecPreference == InitPreference /\ [][NextExtract]_vars
SpecDecision == InitDecision /\ [][NextExtract]_vars

\* The onResponse call of the run has returned.
Responded == responses = 1 /\ tasks = <<>>
Recorded(type) == SelectSeq(sessionMemories["s1"].list, LAMBDA e : e.type = type)

IsTrigger(tok) ==
  tok.t \in Range(PreferenceTriggers) \cup Range(DecisionTriggers)

\* txt is one statement: a trigger of `triggers`, whitespace, then text that
\* holds at least one word and no further trigger.
OneStatement(txt, triggers) ==
  /\ Len(txt) >= 3
  /\ txt[1].t \in Range(triggers)
  /\ IsSpace(txt[2])
  /\ \E i \in 3..Len(txt) : txt[i].t = "w"
  /\ \A i \in 2..Len(txt) : ~IsTrigger(txt[i])

\* C22: for a message and a response that contain no trigger phrase,
\* onResponse returns without suspending and records no observation: the
\* session's working set is what it was before the call.
NoTrigger(txt) == \A i \in 1..Len(txt) : ~IsTrigger(txt[i])
C22_NoTriggerNoObservation ==
  (responses = 1 /\ NoTrigger(msgIn) /\ NoTrigger(respIn))
    => /\ tasks = <<>>
       /\ nextObs = 0
       /\ sessionMemories["s1"] = Present(<<>>)

\* The call was made with a message of words, spaces and a line break and
\* with a response of words only.
C22_Witness ==
  /\ responses = 1
  /\ NoTrigger(msgIn) /\ NoTrigger(respIn)
  /\ \E i \in 1..Len(msgIn) : msgIn[i].t = "w"
  /\ \E i \in 1..Len(msgIn) : msgIn[i].t = "sp"
  /\ \E i \in 1..Len(msgIn) : msgIn[i].t = "nl"
  /\ respIn # <<>>
  /\ sessionMemories["s1"] = Present(<<>>)

\* C9 (as claimed): a match of a decision pattern in the response becomes a
\* decision observation exactly when the length L of its captured span
\* satisfies 20 <= L <= 200.
C9_WindowInclusive ==
  Responded =>
    \A k \in 1..Len(DecisionTriggers) :
      LET ms == MatchAll(respIn, DecisionTriggers[k], 1)
      IN \A j \in 1..Len(ms) :
           LET L == CharLen(SubSeq(respIn, ms[j].cap, ms[j].to))
               kept == \E i \in 1..Len(Recorded("decision")) :
                         Recorded("decision")[i].content
                           = SubSeq(respIn, ms[j].from, ms[j].to)
           IN kept <=> (L >= MinDecisionLen /\ L <= MaxDecisionLen)

\* C10 (as claimed): a message that is one preference statement yields exactly
\* one preference observation, whose content is the whole message.
C10_WholeStatement ==
  (Responded /\ OneStatement(msgIn, PreferenceTriggers))
    => Recorded("preference") = <<[type |-> "preference", content |-> msgIn]>>

\* C10 (amended): a message that is one preference statement yields exactly
\* one preference observation; its content starts the message, holds the
\* text's first word and no line break after it, and ends where the message
\* ends or at a line break: the whole message when its text has no line break.
C10_StatementFirstLine ==
  (Responded /\ OneStatement(msgIn, PreferenceTriggers))
    => /\ Len(Recorded("preference")) = 1
       /\ LET e == Recorded("preference")[1]
              c == e.content
              firstWord == CHOOSE i \in 3..Len(msgIn) :
                             msgIn[i].t = "w" /\ \A j \in 3..(i - 1) : msgIn[j].t # "w"
          IN /\ e.type = "preference"
             /\ Len(c) >= firstWord
             /\ Len(c) <= Len(msgIn)
             /\ c = SubSeq(msgIn, 1, Len(c))
             /\ \A i \in firstWord..Len(c) : c[i].t # "nl"
             /\ (Len(c) = Len(msgIn) \/ msgIn[Len(c) + 1].t = "nl")
             /\ ((\A i \in 1..Len(msgIn) : msgIn[i].t # "nl") => c = msgIn)

\* A statement in another letter case, recorded whole beside a decision.
C10_Witness ==
  /\ Responded /\ OneStatement(msgIn, PreferenceTriggers)
  /\ msgIn[1].up
  /\ Recorded("preference") = <<[type |-> "preference", content |-> msgIn]>>
  /\ Len(Recorded("decision")) = 1

(***************************************************************************)
(*          formatMemoriesAsContext  (clawd/hooks: context block)          *)
(***************************************************************************)

\* Longest candidate list the model hands to formatMemoriesAsContext.
MaxCandidates == 11

\* memories.slice(0, 10) (line 104)
ContextSliceEnd == 10

Min(a, b) == IF a < b THEN a ELSE b

\* The lines of the returned string, joined by '\n' in the code:
\* '<recalled_context>', one `- [${mem.type}] ${mem.content}` per memory and
\* '</recalled_context>'.
OpenLine == [kind |-> "open", type |-> "", content |-> <<>>]
CloseLine == [kind |-> "close", type |-> "", content |-> <<>>]
EntryLine(mem) == [kind |-> "entry", type |-> mem.type, content |-> mem.content]

\* memories.slice(0, 10)
Slice(memories) == SubSeq(memories, 1, Min(Len(memories), ContextSliceEnd))

\* formatMemoriesAsContext (lines 100-110); <<>> is the empty string.
formatMemoriesAsContext(memories) ==
  IF Len(memories) = 0
    THEN <<>>
    ELSE <<OpenLine>>
           \o [i \in 1..Len(Slice(memories)) |-> EntryLine(Slice(memories)[i])]
           \o <<CloseLine>>

\* The memories of the model: the same preference written three ways (as is,
\* in capitals, with a doubled space) and a decision.
CandidateEntries ==
  { [type |-> "preference", content |-> <<Trig("i prefer", FALSE), Sp, W(4)>>],
    [type |-> "preference", content |-> <<Trig("i prefer", TRUE), Sp, Sp, W(4)>>],
    [type |-> "decision", content |-> <<Trig("let's", FALSE), Sp, W(3)>>] }

\* Candidate lists: every list of up to 3 memories, and longer lists made of
\* one such list repeated (up to MaxCandidates memories).
ShortLists == UNION {[1..n -> CandidateEntries] : n \in 0..3}
Repeat(l, n) == [i \in 1..n |-> l[((i - 1) % Len(l)) + 1]]
CandidateLists ==
  ShortLists \cup {Repeat(l, n) : l \in ShortLists \ {<<>>}, n \in 4..MaxCandidates}

InitContext ==
  /\ InitFetchVars /\ InitRpcVars /\ InitHookVars /\ InitDbVars /\ InitMemVars
  /\ InitMigVars /\ InitToolVars /\ InitFavVars
  /\ candidates \in CandidateLists
  /\ block = NotFormatted

\* formatMemoriesAsContext(candidates) is called and returns (line 49).
FormatContext ==
  /\ block = NotFormatted
  /\ block' = formatMemoriesAsContext(candidates)
  /\ UNCHANGED candidates
  /\ UNCHANGED notCtxVars

NextContext == FormatContext

SpecContext == InitContext /\ [][NextContext]_vars

\* The entry lines of a block, and the size of a block in characters.
EntryLines(b) == SelectSeq(b, LAMBDA line : line.kind = "entry")
TypeChars(type) == IF type = "preference" THEN 10 ELSE 8
LineChars(line) ==
  CASE line.kind = "open"  -> 18
    [] line.kind = "close" -> 19
    [] OTHER -> 5 + TypeChars(line.type) + CharLen(line.content)
RECURSIVE BlockChars(_)
BlockChars(b) ==
  IF b = <<>> THEN 0
  ELSE LineChars(Head(b)) + (IF Len(b) > 1 THEN 1 ELSE 0) + BlockChars(Tail(b))

\* Token cost estimate of a block: one token per 4 characters, rounded up.
EstimatedTokens(b) == (BlockChars(b) + 3) \div 4
\* The token budgets the claim ranges over.
MaxTokenBudget == 8

RECURSIVE Normalize(_)
Normalize(txt) ==
  IF txt = <<>> THEN <<>>
  ELSE IF IsSpace(Head(txt))
    THEN IF Len(txt) > 1 /\ IsSpace(txt[2])
           THEN Normalize(Tail(txt))
           ELSE <<Sp>> \o Normalize(Tail(txt))
    ELSE <<[Head(txt) EXCEPT !.up = FALSE]>> \o Normalize(Tail(txt))

SameContent(c1, c2) == Normalize(c1) = Normalize(c2)

MaxSessionRows == 2
MaxObservationRows == 2
SessionRowIds == 1..MaxSessionRows

\* The indexed columns of an observations row: the contents rows are
\* inserted with, and one more (another narrative and other concepts) that
\* only an UPDATE sets.
InsertDocs ==
  { [title |-> "a", subtitle |-> "s", narrative |-> "n", facts |-> "f", concepts |-> "c"],
    [title |-> "b", subtitle |-> "s", narrative |-> "n", facts |-> "g", concepts |-> "c"] }
RevisedDoc ==
  [title |-> "a", subtitle |-> "s", narrative |-> "m", facts |-> "f", concepts |-> "d"]
Docs == InsertDocs \cup {RevisedDoc}

\* The default tag of migration 003 the model uses ('important', id 1).
DefaultTags == {1}

\* PRAGMA foreign_keys of the store's connection: the schema's REFERENCES
\* clauses are enforced.
ForeignKeysEnforced == TRUE

\* The foreign keys of the schema: "CASCADE" for REFERENCES ... ON DELETE
\* CASCADE, "NONE" for a column declared without a REFERENCES clause.
FkMissing == "NONE"
ObservationsSessionFk == "CASCADE"   \* observations.memory_session_id
FavoritesObservationFk == "CASCADE"  \* favorites.observation_id
ObservationTagsObservationFk == "CASCADE" \* observation_tags.observation_id
ObservationTagsTagFk == "CASCADE"    \* observation_tags.tag_id

Cascades(fk) == ForeignKeysEnforced /\ fk = "CASCADE"
\* An insert's foreign-key check: the parent row must exist.
FkAllows(fk, parentExists) == ~ForeignKeysEnforced \/ fk = "NONE" \/ parentExists

\* The entry of observations_fts for the row `id` with indexed columns doc.
FtsEntry(id, doc) ==
  [rowid |-> id, title |-> doc.title, subtitle |-> doc.subtitle,
   narrative |-> doc.narrative, facts |-> doc.facts, concepts |-> doc.concepts]

\* Trigger observations_ai: AFTER INSERT (lines 60-63).
observations_ai(fts, id, new) == fts (+) SetToBag({FtsEntry(id, new)})

\* Trigger observations_ad: AFTER DELETE, the FTS5 'delete' command with the
\* old row's values (lines 65-68).
TriggerMissing(fts, id, old) == fts
observations_ad(fts, id, old) == fts (-) SetToBag({FtsEntry(id, old)})

\* Trigger observations_au: AFTER UPDATE, 'delete' of the old values and
\* insert of the new ones (lines 70-75).
observations_au(fts, id, old, new) ==
  (fts (-) SetToBag({FtsEntry(id, old)})) (+) SetToBag({FtsEntry(id, new)})

\* The AFTER DELETE trigger run for each row of `rows` (a set of
\* observations rows), in some order.
RECURSIVE AfterDeleteAll(_, _)
AfterDeleteAll(fts, rows) ==
  IF rows = {} THEN fts
  ELSE LET r == CHOOSE x \in rows : TRUE
       IN AfterDeleteAll(observations_ad(fts, r.id, r.doc), rows \ {r})

ObservationIds == {o.id : o \in observations}
Ids(rows) == {o.id : o \in rows}

\* The rows `rows` leave observations (by DELETE, or by the cascade of their
\* session's delete): their children go by the children's foreign keys, and
\* the delete trigger runs for each row.
RemoveObservations(rows) ==
  /\ observations' = observations \ rows
  /\ favorites' = IF Cascades(FavoritesObservationFk)
                    THEN favorites \ Ids(rows) ELSE favorites
  /\ observation_tags' = IF Cascades(ObservationTagsObservationFk)
                           THEN {ot \in observation_tags : ot[1] \notin Ids(rows)}
                           ELSE observation_tags
  /\ observations_fts' = AfterDeleteAll(observations_fts, rows)

\* INSERT INTO sessions: the id is the AUTOINCREMENT sequence's next value.
InsertSession ==
  /\ seqSessions + 1 \in SessionRowIds
  /\ seqSessions' = seqSessions + 1
  /\ sessions' = sessions \cup {seqSessions + 1}
  /\ UNCHANGED <<observations, seqObservations, favorites, tags,
                 observation_tags, observations_fts, deletedSessions, everObs, fullCascade>>
  /\ UNCHANGED notDbVars

\* INSERT INTO observations (memory_session_id = s, indexed columns = doc).
InsertObservation(s, doc) ==
  /\ seqObservations < MaxObservationRows
  /\ FkAllows(ObservationsSessionFk, s \in sessions)
  /\ LET id == seqObservations + 1 IN
       /\ seqObservations' = id
       /\ observations' = observations \cup {[id |-> id, memory_session_id |-> s, doc |-> doc]}
       /\ observations_fts' = observations_ai(observations_fts, id, doc)
       /\ everObs' = everObs \cup {[id |-> id, memory_session_id |-> s]}
  /\ UNCHANGED <<sessions, seqSessions, favorites, tags, observation_tags,
                 deletedSessions, fullCascade>>
  /\ UNCHANGED notDbVars

\* UPDATE observations SET <indexed columns> = doc WHERE id = o.id.
UpdateObservation(o, doc) ==
  /\ o \in observations
  /\ observations' = (observations \ {o}) \cup {[o EXCEPT !.doc = doc]}
  /\ observations_fts' = observations_au(observations_fts, o.id, o.doc, doc)
  /\ UNCHANGED <<sessions, seqSessions, seqObservations, favorites, tags,
                 observation_tags, deletedSessions, everObs, fullCascade>>
  /\ UNCHANGED notDbVars

\* DELETE FROM observations WHERE id = o.id.
DeleteObservation(o) ==
  /\ o \in observations
  /\ RemoveObservations({o})
  /\ UNCHANGED <<sessions, seqSessions, seqObservations, tags, deletedSessions,
                 everObs, fullCascade>>
  /\ UNCHANGED notDbVars

\* DELETE FROM sessions WHERE id = s.
DeleteSession(s) ==
  /\ s \in sessions
  /\ sessions' = sessions \ {s}
  /\ IF Cascades(ObservationsSessionFk)
       THEN RemoveObservations({o \in observations : o.memory_session_id = s})
       ELSE UNCHANGED <<observations, favorites, observation_tags, observations_fts>>
  /\ deletedSessions' = deletedSessions \cup {s}
  /\ fullCascade' = (\/ fullCascade
                     \/ /\ observations' # observations
                        /\ favorites' # favorites
                        /\ observation_tags' # observation_tags)
  /\ UNCHANGED <<seqSessions, seqObservations, tags, everObs>>
  /\ UNCHANGED notDbVars

\* INSERT INTO favorites (observation_id = id); observation_id is UNIQUE.
InsertFavorite(id) ==
  /\ id \notin favorites
  /\ FkAllows(FavoritesObservationFk, id \in ObservationIds)
  /\ favorites' = favorites \cup {id}
  /\ UNCHANGED <<sessions, seqSessions, observations, seqObservations, tags,
                 observation_tags, observations_fts, deletedSessions, everObs, fullCascade>>
  /\ UNCHANGED notDbVars

\* DELETE FROM favorites WHERE observation_id = id.
DeleteFavorite(id) ==
  /\ id \in favorites
  /\ favorites' = favorites \ {id}
  /\ UNCHANGED <<sessions, seqSessions, observations, seqObservations, tags,
                 observation_tags, observations_fts, deletedSessions, everObs, fullCascade>>
  /\ UNCHANGED notDbVars

\* INSERT INTO observation_tags (observation_id = id, tag_id = t); the pair
\* is the primary key.
InsertObservationTag(id, t) ==
  /\ <<id, t>> \notin observation_tags
  /\ FkAllows(ObservationTagsObservationFk, id \in ObservationIds)
  /\ FkAllows(ObservationTagsTagFk, t \in tags)
  /\ observation_tags' = observation_tags \cup {<<id, t>>}
  /\ UNCHANGED <<sessions, seqSessions, observations, seqObservations, tags,
                 favorites, observations_fts, deletedSessions, everObs, fullCascade>>
  /\ UNCHANGED notDbVars

\* DELETE FROM tags WHERE id = t.
DeleteTag(t) ==
  /\ t \in tags
  /\ tags' = tags \ {t}
  /\ observation_tags' = IF Cascades(ObservationTagsTagFk)
                           THEN {ot \in observation_tags : ot[2] # t}
                           ELSE observation_tags
  /\ UNCHANGED <<sessions, seqSessions, observations, seqObservations,
                 favorites, observations_fts, deletedSessions, everObs, fullCascade>>
  /\ UNCHANGED notDbVars

InitDb == InitFetchVars /\ InitRpcVars /\ InitHookVars /\ InitLaterVars

InsertObservationAny ==
  \E s \in SessionRowIds, doc \in InsertDocs : InsertObservation(s, doc)
UpdateObservationAny == \E o \in observations, doc \in Docs : UpdateObservation(o, doc)
DeleteObservationAny == \E o \in observations : DeleteObservation(o)
DeleteSessionAny == \E s \in sessions : DeleteSession(s)
InsertFavoriteAny == \E id \in 1..MaxObservationRows : InsertFavorite(id)
DeleteFavoriteAny == \E id \in favorites : DeleteFavorite(id)
InsertObservationTagAny ==
  \E id \in 1..MaxObservationRows, t \in DefaultTags : InsertObservationTag(id, t)
DeleteTagAny == \E t \in tags : DeleteTag(t)

NextDb ==
  \/ InsertSession \/ InsertObservationAny \/ UpdateObservationAny
  \/ DeleteObservationAny \/ DeleteSessionAny \/ InsertFavoriteAny
  \/ DeleteFavoriteAny \/ InsertObservationTagAny \/ DeleteTagAny

SpecDb == InitDb /\ [][NextDb]_vars

\* The observations rows that referenced the session s, by id.
ReferencedSession(s) == {e.id : e \in {x \in everObs : x.memory_session_id = s}}

\* C13: once a sessions row is deleted, no observations row that referenced
\* it remains, and no favorites or observation_tags row that referenced one
\* of those observations remains.
C13_CascadeInvariant ==
  \A d \in deletedSessions :
    /\ \A o \in observations : o.memory_session_id # d
    /\ \A id \in ReferencedSession(d) :
         /\ id \notin ObservationIds
         /\ id \notin favorites
         /\ \A ot \in observation_tags : ot[1] # id

\* A session's delete removed an observation with its favorite and its tag,
\* while another session's observation, favorited too, is still there.
C13_Witness ==
  /\ fullCascade
  /\ \E o \in observations : o.id \in favorites

\* The index entries the observations table calls for: one per row.
ExpectedFts == {FtsEntry(o.id, o.doc) : o \in observations}

\* C14: observations_fts holds exactly one entry per observations row, with
\* the row's current title, subtitle, narrative, facts and concepts, and
\* nothing else.
C14_FtsInSync ==
  \A e \in BagToSet(observations_fts) \cup ExpectedFts :
    CopiesIn(e, observations_fts) = IF e \in ExpectedFts THEN 1 ELSE 0

\* A session's cascade has removed a row, and a row that was updated is
\* still there, with its entry in the index.
C14_Witness ==
  /\ \E d \in deletedSessions, e \in everObs :
       e.memory_session_id = d /\ e.id \notin ObservationIds
  /\ \E o \in observations :
       o.doc = RevisedDoc /\ BagIn(FtsEntry(o.id, o.doc), observations_fts)

(***************************************************************************)
(*  The memory tools: MemorySkill (clawd/tools) and the plugin's           *)
(*  saveMemory / searchMemories / recallContext (clawd/index.ts)           *)
(***************************************************************************)

\* The contents the model saves and searches for.
MemTexts == {"tabs over spaces", "use postgres", "jwt expiry 1h"}

\* What a fetchWithRetry call of a tool resolves to: success with data, or
\* success = false (service down, endpoint missing, timeout).
ApiOutcomes == {"success", "failure"}

\* MemorySkill.performSearch (lines 222-225): returns [].
performSearch(query) == {}

\* What the MoltBrain worker answers to /api/search: the stored contents
\* that match the query text.
WorkerSearch(store, query) == {c \in store : c = query}

\* MemorySkill.saveMemory (lines 187-217): the entry is built and logged,
\* nothing is stored, success is returned.
SkillSaveMemory(c) ==
  /\ memSaved' = memSaved \cup {c}
  /\ UNCHANGED <<memStore, memSearch>>
  /\ UNCHANGED notMemVars

\* MemorySkill.searchMemories (lines 160-182) and recallContext (lines
\* 138-155): both return what performSearch returns.
SkillSearch(q) ==
  /\ memSearch' = [query |-> q, results |-> performSearch(q)]
  /\ UNCHANGED <<memStore, memSaved>>
  /\ UNCHANGED notMemVars

\* The plugin's saveMemory (index.ts 493-548): POST /api/memory/save; with
\* a successful response the worker holds the memory; without one the
\* fallback returns success = true all the same.
PluginSaveMemory(c, o) ==
  /\ memStore' = IF o = "success" THEN memStore \cup {c} ELSE memStore
  /\ memSaved' = memSaved \cup {c}
  /\ UNCHANGED memSearch
  /\ UNCHANGED notMemVars

\* The plugin's searchMemories (index.ts 393-484) and recallContext
\* (283-388): GET /api/search; without a successful response the result is
\* empty.
PluginSearch(q, o) ==
  /\ memSearch' = [query |-> q,
                   results |-> IF o = "success" THEN WorkerSearch(memStore, q) ELSE {}]
  /\ UNCHANGED <<memStore, memSaved>>
  /\ UNCHANGED notMemVars

InitMemory == InitFetchVars /\ InitRpcVars /\ InitHookVars /\ InitLaterVars

SkillSaveAny == \E c \in MemTexts : SkillSaveMemory(c)
SkillSearchAny == \E q \in MemTexts : SkillSearch(q)
PluginSaveAny == \E c \in MemTexts, o \in ApiOutcomes : PluginSaveMemory(c, o)
PluginSearchAny == \E q \in MemTexts, o \in ApiOutcomes : PluginSearch(q, o)

NextMemory == SkillSaveAny \/ SkillSearchAny \/ PluginSaveAny \/ PluginSearchAny

SpecMemory == InitMemory /\ [][NextMemory]_vars

\* C15: a search with the exact text of a memory whose save reported success
\* returns that memory among its results.
C15_RoundTrip ==
  (memSearch # NoSearch /\ memSearch.query \in memSaved)
    => memSearch.query \in memSearch.results


(***************************************************************************)
(*   ClawdHooks: the hooks with onMessage and the history of the calls     *)
(***************************************************************************)

\* searchMemories(query) (lines 95-98): no memory is ever found.
searchMemories(query) == <<>>

\* What onMessage returns: {} is NoContext, { context } is the block.
NoContext == <<[kind |-> "none", type |-> "", content |-> <<>>]>>

\* `relevantMemories.length > 0` (line 47)
HasRelevantOrNone(relevantMemories) == Len(relevantMemories) >= 0
HasRelevant(relevantMemories) == Len(relevantMemories) > 0

\* onMessage(message) up to `await this.searchMemories(...)`: without a
\* current session it returns {} at once (line 43).
OnMessage ==
  /\ CanStart
  /\ IF currentSession = NoSession
       THEN /\ block' = NoContext
            /\ UNCHANGED tasks
       ELSE /\ block' = NotFormatted
            /\ tasks' = Append(tasks, Task("message", currentSession, <<>>))
  /\ UNCHANGED <<currentSession, sessionMemories, nextObs, captured, lastEnd,
                 responses, msgIn, respIn>>
  /\ UNCHANGED <<fetchVars, rpcVars, candidates, dbVars, memVars, migVars, toolVars,
                 favVars>>

\* ... and after it (lines 47-54): the context block when memories were
\* found, {} otherwise.
OnMessageResume(k) ==
  /\ k \in 1..Len(tasks)
  /\ tasks[k].op = "message"
  /\ LET relevantMemories == searchMemories(msgIn)
     IN block' = IF HasRelevant(relevantMemories)
                   THEN formatMemoriesAsContext(relevantMemories)
                   ELSE NoContext
  /\ tasks' = Without(k)
  /\ UNCHANGED <<currentSession, sessionMemories, nextObs, captured, lastEnd,
                 responses, msgIn, respIn>>
  /\ UNCHANGED <<fetchVars, rpcVars, candidates, dbVars, memVars, migVars, toolVars,
                 favVars>>

\* The hooks as the host calls them; the suspended invocations carry their
\* history: onSessionStart whether the session was already started,
\* onResponse the session that was current at the call.
StartNotingAny == \E s \in Sessions : OnSessionStartNoting(s, AlreadyStarted(s))
ResponseInSession == OnResponseFrom(currentSession)
MessageResumeAny == \E k \in 1..MaxTasks : OnMessageResume(k)

NextSessions ==
  \/ StartNotingAny \/ StartResumeAny
  \/ OnMessage \/ MessageResumeAny
  \/ ResponseInSession \/ ResponseResumeAny
  \/ EndAny \/ EndResumeAny

SpecSessions == InitHooks /\ [][NextSessions]_vars

\* Step: the onSessionStart invocation in slot k returns.
StartReturns(k) ==
  /\ k \in 1..Len(tasks)
  /\ tasks[k].op = "start"
  /\ tasks' = Without(k)
  /\ sessionMemories'[tasks[k].s].present

\* C16: onSessionStart called again for a session that is already started
\* resumes it: when the call returns, the session's working set is the one
\* it had, so the observations captured so far are kept.
C16_StartIdempotent ==
  [][\A k \in 1..MaxTasks :
       (StartReturns(k) /\ tasks[k].again /\ currentSession = tasks[k].s)
         => sessionMemories'[tasks[k].s] = sessionMemories[tasks[k].s]]_vars


\* onSessionStart("s1") has returned; from then on the host calls onMessage
\* and onResponse for s1 without awaiting them.
MessageInStarted == AlreadyStarted("s1") /\ currentSession = "s1" /\ OnMessage
ResponseInStarted == AlreadyStarted("s1") /\ currentSession = "s1" /\ OnResponse

NextConcurrent ==
  \/ FirstStart \/ StartResumeAny
  \/ MessageInStarted \/ MessageResumeAny
  \/ ResponseInStarted \/ ResponseResumeAny

SpecConcurrent == InitHooks /\ [][NextConcurrent]_vars

\* How often the entry e occurs in a list, and in the observations the
\* suspended onResponse invocations have still to save.
Occurrences(e, list) == Cardinality({i \in 1..Len(list) : list[i] = e})
RECURSIVE StillToSave(_, _)
StillToSave(e, ts) ==
  IF ts = <<>> THEN 0
  ELSE (IF Head(ts).op = "response" THEN Occurrences(e, Head(ts).rest) ELSE 0)
         + StillToSave(e, Tail(ts))

\* C17: with concurrent onMessage/onResponse calls in a started session,
\* every observation extracted by a call is in the session's working set
\* exactly once as soon as the call has saved it: the set holds one copy per
\* call made, less the copies still to be saved, so none is lost and none
\* is duplicated.
C17_RecordedExactlyOnce ==
  LET obs == extractObservations(msgIn, respIn)
  IN \A e \in Range(obs) :
       Occurrences(e, MemoriesOf("s1")) + StillToSave(e, tasks)
         = responses * Occurrences(e, obs)

\* Two onResponse calls with two observations each ran interleaved and have
\* returned: the first observation of both was saved before the second of
\* either.
C17_Witness ==
  LET obs == extractObservations(msgIn, respIn)
  IN /\ Len(obs) = 2
     /\ tasks = <<>>
     /\ MemoriesOf("s1") = <<obs[1], obs[1], obs[2], obs[2]>>


\* Step: onSessionEnd(s) returns, at once or after its summary.
EndReturns(s) ==
  \/ OnSessionEnd(s) /\ ~SummaryNeeded(Len(MemoriesOf(s)))
  \/ \E k \in 1..MaxTasks : OnSessionEndResume(k) /\ tasks[k].s = s

\* Step: an onResponse invocation called during a session that has ended
\* since saves its next observation.
LateSave(k) ==
  /\ OnResponseResume(k)
  /\ tasks[k].ended
  /\ tasks[k].rest # <<>>

\* C18: when onSessionEnd(s) returns, the working set of s is gone and no
\* session is current; onMessage without a current session returns no
\* context; and an observation captured during s is never recorded in a
\* session started after s has ended.
C18_SessionsIsolated ==
  [][/\ \A s \in Sessions :
          EndReturns(s) => (~sessionMemories'[s].present /\ currentSession' = NoSession)
     /\ (OnMessage /\ currentSession = NoSession) => block' = NoContext
     /\ \A k \in 1..MaxTasks :
          LateSave(k) => sessionMemories' = sessionMemories]_vars


\* onMessage between the session hooks, with and without a current session.
NextMessages ==
  StartAny \/ StartResumeAny \/ OnMessage \/ MessageResumeAny \/ EndAny

SpecMessages == InitHooks /\ [][NextMessages]_vars

\* C25: when no session is current or the search finds no memory for the
\* message, whatever onMessage has returned is the empty result: no context
\* block is produced.
C25_NoCandidatesNoContext ==
  (currentSession = NoSession \/ searchMemories(msgIn) = <<>>)
    => block \in {NotFormatted, NoContext}

\* onMessage has returned the empty result while a started session is
\* current.
C25_Witness ==
  /\ block = NoContext
  /\ currentSession # NoSession
  /\ sessionMemories[currentSession].present
  /\ tasks = <<>>

(***************************************************************************)
(*              The migration runner  (scripts/migrate.ts)                 *)
(***************************************************************************)

\* Longest run of digits at the start of a file name of the model.
MaxDigits == 2

\* A file name is the sequence of its characters.
Digits == {"0", "1", "2"}
SqlSuffix == <<".", "s", "q", "l">>
OtherSuffix == <<".", "m", "d">>

\* The UTF-16 code unit of a character.
CodeUnit(c) ==
  CASE c = "." -> 46
    [] c = "0" -> 48
    [] c = "1" -> 49
    [] c = "2" -> 50
    [] c = "_" -> 95
    [] c = "a" -> 97
    [] c = "d" -> 100
    [] c = "l" -> 108
    [] c = "m" -> 109
    [] c = "q" -> 113
    [] c = "s" -> 115

\* The file names of the model: up to MaxDigits digits, then "_a" or "a",
\* then ".sql" or ".md".
DigitRuns == UNION {[1..n -> Digits] : n \in 0..MaxDigits}
FileNames ==
  {d \o t \o x : d \in DigitRuns, t \in {<<"_", "a">>, <<"a">>},
                 x \in {SqlSuffix, OtherSuffix}}
\* The directories of the model: no file, one file or two files.
Directories == {{}} \cup {{f, g} : f, g \in FileNames}

\* f.endsWith('.sql')
EndsWithSql(f) ==
  /\ Len(f) >= Len(SqlSuffix)
  /\ SubSeq(f, Len(f) - Len(SqlSuffix) + 1, Len(f)) = SqlSuffix

\* The order of Array.prototype.sort() without a comparator: strings are
\* compared by their UTF-16 code units, a proper prefix comes first.
RECURSIVE Before(_, _)
Before(f, g) ==
  IF f = <<>> THEN g # <<>>
  ELSE IF g = <<>> THEN FALSE
  ELSE IF Head(f) = Head(g) THEN Before(Tail(f), Tail(g))
  ELSE CodeUnit(Head(f)) < CodeUnit(Head(g))

RECURSIVE Sort(_)
Sort(files) ==
  IF files = {} THEN <<>>
  ELSE LET first == CHOOSE f \in files : \A g \in files \ {f} : Before(f, g)
       IN <<first>> \o Sort(files \ {first})

\* The digits /^(\d+)_/ captures: the whole leading run of digits when it is
\* not empty and an underscore follows it; <<>> when there is no match.
RECURSIVE LeadingDigits(_)
LeadingDigits(f) ==
  IF f # <<>> /\ Head(f) \in Digits
    THEN <<Head(f)>> \o LeadingDigits(Tail(f))
    ELSE <<>>
VersionMatch(f) ==
  LET run == LeadingDigits(f)
  IN IF run # <<>> /\ Len(f) > Len(run) /\ f[Len(run) + 1] = "_"
       THEN run ELSE <<>>

\* parseInt(digits, 10)
RECURSIVE parseInt(_)
parseInt(digits) ==
  IF digits = <<>> THEN 0
  ELSE 10 * parseInt(SubSeq(digits, 1, Len(digits) - 1))
         + (CodeUnit(digits[Len(digits)]) - CodeUnit("0"))

\* `match ? parseInt(match[1], 10) : 0`
VersionOf(f) == IF VersionMatch(f) = <<>> THEN 0 ELSE parseInt(VersionMatch(f))

\* loadMigrations() (lines 43-61) over the files of the directory.
loadMigrations(dir) ==
  LET files == Sort({f \in dir : EndsWithSql(f)})
  IN [i \in 1..Len(files) |-> [version |-> VersionOf(files[i]), filename |-> files[i]]]

InitMigrate ==
  /\ InitFetchVars /\ InitRpcVars /\ InitHookVars
  /\ InitCtxVars /\ InitDbVars /\ InitMemVars /\ InitToolVars /\ InitFavVars
  /\ migrationFiles \in Directories
  /\ migrations = NotLoaded

\* main() calls loadMigrations() (line 65).
LoadMigrations ==
  /\ migrations = NotLoaded
  /\ migrations' = loadMigrations(migrationFiles)
  /\ UNCHANGED migrationFiles
  /\ UNCHANGED notMigVars

NextMigrate == LoadMigrations

SpecMigrate == InitMigrate /\ [][NextMigrate]_vars

\* C19: in the list loadMigrations returns, each migration's version is
\* strictly greater than the version of the migration before it, for every
\* set of .sql file names in the directory.
C19_StrictlyIncreasing ==
  migrations # NotLoaded =>
    \A i \in 2..Len(migrations) :
      migrations[i].version > migrations[i - 1].version


(***************************************************************************)
(*  search_memories and recall_context with their limit and type filter    *)
(*  (MemorySkill; the plugin's searchMemories / recallContext)             *)
(***************************************************************************)

\* Largest limit a call of the model asks for.
MaxLimit == 2

\* `limit: number = 20` and `maxResults: number = 10`
DefaultSearchLimit == 20
DefaultRecallLimit == 10

MemoryTypes == {"preference", "decision"}
Limits == {NoLimit} \cup (-1..MaxLimit)
TypeLists == {NoTypes} \cup SUBSET MemoryTypes

\* What the worker's store holds for the query, best match first.
WorkerRecords ==
  <<[id |-> 1, type |-> "preference"], [id |-> 2, type |-> "decision"],
    [id |-> 3, type |-> "preference"]>>

\* `types && types.length > 0`
TypesGiven(types) == types # NoTypes /\ types # {}

\* The records GET /api/search selects for `limit` and `type`: the records
\* of a given type only, and at most limit of them, none for a limit <= 0.
WorkerSelect(limit, types) ==
  LET typed == IF TypesGiven(types)
                 THEN SelectSeq(WorkerRecords, LAMBDA r : r.type \in types)
                 ELSE WorkerRecords
  IN IF limit <= 0 THEN <<>> ELSE SubSeq(typed, 1, Min(limit, Len(typed)))

\* How a fetchWithRetry call to /api/search ends: without success, with
\* records (JSON, directly or inside the text content), or with a text
\* content that is not JSON.
SearchAnswers == {"failure", "records", "text"}

ToolResult(results) == [success |-> TRUE, results |-> results, count |-> Len(results)]
TextResult == [id |-> 0, type |-> "search-result"]

\* The plugin's searchMemories (index.ts 378-484).
PluginSearchMemories(limit, types, answer) ==
  CASE answer = "failure" -> ToolResult(<<>>)
    [] answer = "records" -> ToolResult(WorkerSelect(limit, types))
    [] answer = "text"    -> ToolResult(<<TextResult>>)

\* The plugin's recallContext (index.ts 283-373): a text that is not JSON
\* falls through to the empty result.
PluginRecallContext(maxResults, answer) ==
  CASE answer = "failure" -> ToolResult(<<>>)
    [] answer = "records" -> ToolResult(WorkerSelect(maxResults, NoTypes))
    [] answer = "text"    -> ToolResult(<<>>)

\* performSearch(query, limit) of MemorySkill (lines 222-225), as a list.
SkillPerformSearch(limit) == <<>>

\* MemorySkill.searchMemories (lines 159-182): the post-filter by type.
SkillSearchMemories(limit, types) ==
  LET memories == SkillPerformSearch(limit)
  IN ToolResult(IF TypesGiven(types)
                  THEN SelectSeq(memories, LAMBDA m : m.type \in types)
                  ELSE memories)

\* MemorySkill.recallContext (lines 138-155).
SkillRecallContext(maxResults) == ToolResult(SkillPerformSearch(maxResults))

\* The limit a call runs with: the default when the parameter is left out.
EffectiveLimit(limit, default) == IF limit = NoLimit THEN default ELSE limit

CallPluginSearch ==
  \E limit \in Limits, types \in TypeLists, answer \in SearchAnswers :
    /\ toolCall' = [tool |-> "plugin.search_memories", limit |-> limit, types |-> types,
                     answer |-> answer]
    /\ toolResult' = PluginSearchMemories(EffectiveLimit(limit, DefaultSearchLimit), types, answer)
    /\ UNCHANGED notToolVars

CallPluginRecall ==
  \E limit \in Limits, answer \in SearchAnswers :
    /\ toolCall' = [tool |-> "plugin.recall_context", limit |-> limit, types |-> NoTypes,
                     answer |-> answer]
    /\ toolResult' = PluginRecallContext(EffectiveLimit(limit, DefaultRecallLimit), answer)
    /\ UNCHANGED notToolVars

CallSkillSearch ==
  \E limit \in Limits, types \in TypeLists :
    /\ toolCall' = [tool |-> "skill.search_memories", limit |-> limit, types |-> types,
                     answer |-> "none"]
    /\ toolResult' = SkillSearchMemories(EffectiveLimit(limit, DefaultSearchLimit), types)
    /\ UNCHANGED notToolVars

CallSkillRecall ==
  \E limit \in Limits :
    /\ toolCall' = [tool |-> "skill.recall_context", limit |-> limit, types |-> NoTypes,
                     answer |-> "none"]
    /\ toolResult' = SkillRecallContext(EffectiveLimit(limit, DefaultRecallLimit))
    /\ UNCHANGED notToolVars

InitTools == InitFetchVars /\ InitRpcVars /\ InitHookVars /\ InitLaterVars

NextTools == CallPluginSearch \/ CallPluginRecall \/ CallSkillSearch \/ CallSkillRecall

SpecTools == InitTools /\ [][NextTools]_vars

IsSearch(call) == call.tool \in {"plugin.search_memories", "skill.search_memories"}

\* C23: a search given a non-empty list of types returns only records whose
\* type is in the list, and its count is the number of returned records;
\* with no list or an empty list it returns every record the search found.
C23_TypeFilterHard ==
  IsSearch(toolCall) =>
    /\ toolResult.count = Len(toolResult.results)
    /\ TypesGiven(toolCall.types) =>
         \A i \in 1..Len(toolResult.results) :
           toolResult.results[i].type \in toolCall.types
    /\ (~TypesGiven(toolCall.types) /\ toolCall.answer = "records") =>
         toolResult.results
           = WorkerSelect(EffectiveLimit(toolCall.limit, DefaultSearchLimit), NoTypes)

\* C24: search and recall return at most `limit` records, none for a limit
\* of 0 or below, and report success.
C24_AtMostLimit ==
  toolCall # NotCalled =>
    LET limit == EffectiveLimit(toolCall.limit,
                                IF IsSearch(toolCall) THEN DefaultSearchLimit
                                ELSE DefaultRecallLimit)
    IN /\ toolResult.success
       /\ Len(toolResult.results) <= (IF limit > 0 THEN limit ELSE 0)


(***************************************************************************)
(*           FavoritesStore  (src/favMap/FavoritesStore.ts)             *)
(***************************************************************************)

\* Observation ids 1..MaxFavIds; Date.now() runs from 0 to MaxClock.
MaxFavIds == 3
MaxClock == 2

FavIds == 1..MaxFavIds
FavNotes == {NoNote, "note"}
\* options.maxItems of the stores of the model.
MaxItemsChoices == {1, 2}

FavoriteItem(id, note, at) == [observationId |-> id, note |-> note, createdAt |-> at]

\* The Map `favorites` is the sequence of its entries [key, item] in
\* insertion order.
MapHas(m, key) == \E i \in 1..Len(m) : m[i].key = key
\* Map.prototype.set: the value of an existing key is replaced in place, a
\* new key is appended.
MapSetAppending(m, key, item) == Append(m, [key |-> key, item |-> item])
MapSet(m, key, item) ==
  IF MapHas(m, key)
    THEN [i \in 1..Len(m) |-> IF m[i].key = key THEN [key |-> key, item |-> item] ELSE m[i]]
    ELSE Append(m, [key |-> key, item |-> item])
\* Map.prototype.delete
MapDelete(m, key) == SelectSeq(m, LAMBDA e : e.key # key)

\* getAll(): Array.from(this.favorites.values())
GetAll(m) == [i \in 1..Len(m) |-> m[i].item]

\* `for (const item of items) this.favorites.set(item.observationId, item)`
\* (import, lines 157-159; load, lines 171-173)
RECURSIVE SetAll(_, _)
SetAll(m, items) ==
  IF items = <<>> THEN m
  ELSE SetAll(MapSet(m, Head(items).observationId, Head(items)), Tail(items))

\* getSortedByDate(): sort((a, b) => b.createdAt - a.createdAt), newest
\* first; the sort is stable.
RECURSIVE InsertByDate(_, _)
InsertByDate(sorted, item) ==
  IF sorted = <<>> THEN <<item>>
  ELSE IF Head(sorted).createdAt >= item.createdAt
    THEN <<Head(sorted)>> \o InsertByDate(Tail(sorted), item)
    ELSE <<item>> \o sorted
RECURSIVE SortedByDate(_)
SortedByDate(items) ==
  IF items = <<>> THEN <<>>
  ELSE InsertByDate(SortedByDate(SubSeq(items, 1, Len(items) - 1)), items[Len(items)])

\* enforceLimit (lines 191-201): the items it removes, and the Map after it.
ToRemove(m, maxItems) ==
  IF Len(m) <= maxItems THEN <<>>
  ELSE SubSeq(SortedByDate(GetAll(m)), maxItems + 1, Len(m))
RECURSIVE DeleteAll(_, _)
DeleteAll(m, items) ==
  IF items = <<>> THEN m
  ELSE DeleteAll(MapDelete(m, Head(items).observationId), Tail(items))
enforceLimit(m, maxItems) == DeleteAll(m, ToRemove(m, maxItems))

\* save() (lines 180-189): nothing without localStorage.
Saved(m) == IF favStorage = NoLocalStorage THEN NoLocalStorage ELSE GetAll(m)

\* load() (lines 164-178), into the empty Map of a new store.
load(storage, maxItems) ==
  IF storage = NoLocalStorage THEN <<>> ELSE SetAll(<<>>, storage)

\* What localStorage holds under the storage key before the store is
\* constructed: nothing, lists written by a store, a list with a repeated id.
StoredLists ==
  { <<>>,
    <<FavoriteItem(1, NoNote, 0)>>,
    <<FavoriteItem(1, NoNote, 0), FavoriteItem(2, "note", 1)>>,
    <<FavoriteItem(1, NoNote, 0), FavoriteItem(2, "note", 0), FavoriteItem(3, NoNote, 1)>>,
    <<FavoriteItem(2, NoNote, 1), FavoriteItem(2, "note", 0)>> }

\* The lists import() is called with.
ImportLists ==
  {<<FavoriteItem(i, NoNote, t)>> : i \in FavIds, t \in {0, MaxClock}} \cup
  {<<FavoriteItem(1, "note", 0), FavoriteItem(j, NoNote, MaxClock)>> : j \in FavIds}

InitFavorites ==
  /\ InitFetchVars /\ InitRpcVars /\ InitHookVars
  /\ InitCtxVars /\ InitDbVars /\ InitMemVars /\ InitMigVars /\ InitToolVars
  /\ favMap = <<>>
  /\ favConstructed = FALSE
  /\ favStorage \in StoredLists \cup {NoLocalStorage}
  /\ favMaxItems \in MaxItemsChoices
  /\ favNow = 0
  /\ favEvicted = <<>>

\* new FavoritesStore({ maxItems }) (lines 22-30)
FavConstruct ==
  /\ ~favConstructed
  /\ favConstructed' = TRUE
  /\ favMap' = load(favStorage, favMaxItems)
  /\ UNCHANGED <<favStorage, favMaxItems, favNow, favEvicted>>
  /\ UNCHANGED notFavVars

\* Time passes: Date.now() never goes back.
FavTick ==
  /\ favNow < MaxClock
  /\ favNow' = favNow + 1
  /\ UNCHANGED <<favMap, favConstructed, favStorage, favMaxItems, favEvicted>>
  /\ UNCHANGED notFavVars

\* add(observationId, note) (lines 35-47)
FavAdd(id, note) ==
  /\ favConstructed
  /\ LET set == MapSet(favMap, id, FavoriteItem(id, note, favNow))
     IN /\ favMap' = enforceLimit(set, favMaxItems)
        /\ favEvicted' = ToRemove(set, favMaxItems)
  /\ favStorage' = Saved(favMap')
  /\ UNCHANGED <<favConstructed, favMaxItems, favNow>>
  /\ UNCHANGED notFavVars

\* remove(observationId) (lines 52-58)
FavRemove(id) ==
  /\ favConstructed
  /\ favMap' = MapDelete(favMap, id)
  /\ favStorage' = IF MapHas(favMap, id) THEN Saved(favMap') ELSE favStorage
  /\ favEvicted' = <<>>
  /\ UNCHANGED <<favConstructed, favMaxItems, favNow>>
  /\ UNCHANGED notFavVars

\* toggle(observationId, note) (lines 70-78)
FavToggle(id, note) ==
  IF MapHas(favMap, id) THEN FavRemove(id) ELSE FavAdd(id, note)

\* updateNote(observationId, note) (lines 111-119)
FavUpdateNote(id, note) ==
  /\ favConstructed
  /\ MapHas(favMap, id)
  /\ favMap' = [i \in 1..Len(favMap) |->
                     IF favMap[i].key = id
                       THEN [favMap[i] EXCEPT !.item.note = note]
                       ELSE favMap[i]]
  /\ favStorage' = Saved(favMap')
  /\ favEvicted' = <<>>
  /\ UNCHANGED <<favConstructed, favMaxItems, favNow>>
  /\ UNCHANGED notFavVars

\* clear() (lines 141-144)
FavClear ==
  /\ favConstructed
  /\ favMap' = <<>>
  /\ favStorage' = Saved(favMap')
  /\ favEvicted' = <<>>
  /\ UNCHANGED <<favConstructed, favMaxItems, favNow>>
  /\ UNCHANGED notFavVars

\* import(items) (lines 156-162)
FavImport(items) ==
  /\ favConstructed
  /\ LET set == SetAll(favMap, items)
     IN /\ favMap' = enforceLimit(set, favMaxItems)
        /\ favEvicted' = ToRemove(set, favMaxItems)
  /\ favStorage' = Saved(favMap')
  /\ UNCHANGED <<favConstructed, favMaxItems, favNow>>
  /\ UNCHANGED notFavVars

FavAddAny == \E id \in FavIds, note \in FavNotes : FavAdd(id, note)
FavRemoveAny == \E id \in FavIds : FavRemove(id)
FavToggleAny == \E id \in FavIds, note \in FavNotes : FavToggle(id, note)
FavUpdateNoteAny == \E id \in FavIds, note \in FavNotes : FavUpdateNote(id, note)
FavImportAny == \E items \in ImportLists : FavImport(items)

NextFavorites ==
  \/ FavConstruct \/ FavTick \/ FavAddAny \/ FavRemoveAny \/ FavToggleAny
  \/ FavUpdateNoteAny \/ FavClear \/ FavImportAny

SpecFavorites == InitFavorites /\ [][NextFavorites]_vars

\* C26: the store never holds two entries for one observation id, and every
\* entry is filed under its own observation id.
C26_OneFavoritePerObservation ==
  /\ \A i, j \in 1..Len(favMap) :
       favMap[i].item.observationId = favMap[j].item.observationId => i = j
  /\ \A i \in 1..Len(favMap) : favMap[i].key = favMap[i].item.observationId

\* An id that was a favorite has been added or imported again at a later
\* time: the store holds two favorites and the entry of the first id, still
\* first, carries the later time.
C26_Witness ==
  /\ Len(favMap) = 2
  /\ favMap[1].item.createdAt > favMap[2].item.createdAt

\* C30: a constructed store holds at most maxItems entries, and the entries
\* the latest eviction removed are not newer than any entry that was kept.
C30_LimitEnforced ==
  favConstructed =>
    /\ Len(favMap) <= favMaxItems
    /\ \A i \in 1..Len(favEvicted), j \in 1..Len(favMap) :
         favEvicted[i].createdAt <= favMap[j].item.createdAt

=============================================================================
